---- MODULE Spec2Model ----
(***************************************************************************)
(* Model of the three-stage council pipeline of backend/council.py:        *)
(* run_full_council and the functions it calls (stage1_collect_responses,  *)
(* stage2_collect_rankings, stage3_synthesize_final,                       *)
(* parse_ranking_from_text, calculate_aggregate_rankings).                 *)
(*                                                                         *)
(* A text is a sequence of tokens.  The tokens are the pieces of text the  *)
(* parser's regular expressions and its split distinguish: the marker      *)
(* "FINAL RANKING:", a list number "<digits>." (with the white space that  *)
(* follows it), a mention "Response <letter>", and any other word.         *)
(* average_rank is kept in hundredths (150 is 1.50).                       *)
(***************************************************************************)
EXTENDS Integers, Sequences, FiniteSets, TLC

\* ------------------------------------------------------------------ bounds
\* Number of configured council members taken from COUNCIL_MODELS.
NumMembers == 2
\* Number of letters a reviewer's text may mention (A, B, C, ...).
NumLetters == 3
\* Longest text, in tokens, given to the parser on its own.
MaxTextLen == 5
\* Longest reviewer text, in mentions, given to the aggregator on its own.
MaxRankLen == 2
\* Longest Stage-1 result list given to the anonymizer on its own.
MaxResults == 28
\* Longest query, in characters, given to the crisis detector on its own.
MaxQueryLen == 5
\* Longest body of a title reply, in characters, and longest run of white
\* space and quotes around it.
MaxTitleLen == 52
MaxPadLen == 1
\* Number of create_conversation requests one user has in flight or done.
MaxRequests == 3
\* Number of profile requests one user sends, one after another.
MaxProfileRequests == 3
\* Number of requests sent on one conversation, one after another, and
\* number of messages the conversation may hold at the start.
MaxAccessRequests == 2
MaxMessages == 1

\* --------------------------------------------------------------- variables
VARIABLES
  pc,                 \* where run_full_council is
  user_query,         \* its argument, a sequence of characters
  call_keywords,      \* the keyword arguments its caller passes besides
  queries_sent,       \* the number of query_model calls made, by stage and model
  is_crisis,          \* local of run_full_council
  stage1_calls,       \* member -> the query_model call of Stage 1
  stage2_calls,       \* member -> the query_model call of Stage 2
  chairman_call,      \* the query_model call of Stage 3
  completed1,         \* Stage-1 members in the order their calls completed
  stage1_results,     \* local of run_full_council
  label_to_model,     \* local of run_full_council
  stage2_results,     \* local of run_full_council
  aggregate_rankings, \* local of run_full_council
  returned,           \* what run_full_council returned
  parse_pc,           \* a parse_ranking_from_text call on its own: where it is,
  ranking_text,       \*   its argument
  parsed_ranking,     \*   and its result
  agg_pc,             \* a calculate_aggregate_rankings call on its own: where it is,
  agg_stage2,         \*   its arguments
  agg_label_to_model,
  agg_result,         \*   and its result
  anon_pc,            \* the labelling of stage2_collect_rankings on its own: where it is,
  anon_results,       \*   the Stage-1 result list it is given
  anon_label_to_model, \*  and the label map it builds
  crisis_pc,          \* a check_for_crisis call on its own: where it is,
  crisis_query,       \*   its argument
  crisis_result,      \*   and its result
  title_pc,           \* a generate_conversation_title call: where it is,
  title_call,         \*   its query_model call
  title_result,       \*   and the title it returned
  twice_pc,           \* two parse_ranking_from_text calls in a row: where they are,
  twice_text,         \*   the text both are given
  twice_carried,      \*   what the first call leaves behind for the second
  twice_first,        \*   the first result
  twice_second,       \*   and the second
  conv_tier,          \* create_conversation requests of one user: the tier of the user,
  conv_rows,          \*   the committed conversations of the user
  req_pc,             \*   request -> where its handler is
  req_seen,           \*   request -> the count its handler read
  prof_row,           \* the profile requests of one user: the row of the users table,
  prof_original,      \*   the profile create_profile stored
  prof_last,          \*   the last request and its answer
  prof_handled,       \*   the number of requests answered
  acc_conv,           \* requests on one conversation: the conversation and its messages,
  acc_council,        \*   the number of council calls the handlers made
  acc_last,           \*   the last request and its answer
  acc_handled         \*   the number of requests answered

runVars == <<pc, user_query, call_keywords, queries_sent, is_crisis, stage1_calls, stage2_calls, chairman_call, completed1,
             stage1_results, label_to_model, stage2_results,
             aggregate_rankings, returned>>
parseVars == <<parse_pc, ranking_text, parsed_ranking>>
aggVars == <<agg_pc, agg_stage2, agg_label_to_model, agg_result>>
anonVars == <<anon_pc, anon_results, anon_label_to_model>>
crisisVars == <<crisis_pc, crisis_query, crisis_result>>
titleVars == <<title_pc, title_call, title_result>>
twiceVars == <<twice_pc, twice_text, twice_carried, twice_first, twice_second>>
convVars == <<conv_tier, conv_rows, req_pc, req_seen>>
profVars == <<prof_row, prof_original, prof_last, prof_handled>>
accVars == <<acc_conv, acc_council, acc_last, acc_handled>>
vars == <<runVars, parseVars, aggVars, anonVars, crisisVars, titleVars, twiceVars, convVars, profVars, accVars>>

\* ------------------------------------------------------------------ config
AllCouncilModels ==
  <<"therapist", "psychiatrist", "trainer", "doctor", "psychologist", "extra">>
COUNCIL_MODELS == SubSeq(AllCouncilModels, 1, NumMembers)
CHAIRMAN_MODEL == "chairman"
Members == {COUNCIL_MODELS[i] : i \in 1..Len(COUNCIL_MODELS)}

\* ------------------------------------------------------------------- texts
Marker == "FINAL RANKING:"
Num == "1."
Word == "word"
\* chr(65 + i) for i = 0, 1, ..., prefixed with "Response ".
ResponseOfChr ==
  <<"Response A", "Response B", "Response C", "Response D", "Response E",
    "Response F", "Response G", "Response H", "Response I", "Response J",
    "Response K", "Response L", "Response M", "Response N", "Response O",
    "Response P", "Response Q", "Response R", "Response S", "Response T",
    "Response U", "Response V", "Response W", "Response X", "Response Y",
    "Response Z", "Response [", "Response \\", "Response ]", "Response ^",
    "Response _">>
Mentions == {ResponseOfChr[i] : i \in 1..NumLetters}
Tokens == {Marker, Num, Word} \cup Mentions

RECURSIVE SeqsUpTo(_, _)
SeqsUpTo(S, n) ==
  IF n = 0 THEN {<<>>}
  ELSE LET shorter == SeqsUpTo(S, n - 1)
       IN shorter \cup {Append(s, x) : s \in {t \in shorter : Len(t) = n - 1}, x \in S}

\* ------------------------------------------------- parse_ranking_from_text
\* "FINAL RANKING:" in ranking_text
ContainsMarker(text) == \E i \in 1..Len(text) : text[i] = Marker

\* ranking_text.split("FINAL RANKING:")
RECURSIVE SplitFrom(_, _, _)
SplitFrom(text, i, current) ==
  IF i > Len(text) THEN <<current>>
  ELSE IF text[i] = Marker THEN <<current>> \o SplitFrom(text, i + 1, <<>>)
  ELSE SplitFrom(text, i + 1, Append(current, text[i]))
Split(text) == SplitFrom(text, 1, <<>>)

\* re.findall(r'\d+\.\s*Response [A-Z]', section): the matches, left to right,
\* each a list number directly followed by a mention.
RECURSIVE FindNumberedFrom(_, _)
FindNumberedFrom(section, i) ==
  IF i + 1 > Len(section) THEN <<>>
  ELSE IF section[i] = Num /\ section[i + 1] \in Mentions
       THEN <<SubSeq(section, i, i + 1)>> \o FindNumberedFrom(section, i + 2)
       ELSE FindNumberedFrom(section, i + 1)
FindNumbered(section) == FindNumberedFrom(section, 1)

\* re.findall(r'Response [A-Z]', text)
RECURSIVE FindMentionsFrom(_, _)
FindMentionsFrom(text, i) ==
  IF i > Len(text) THEN <<>>
  ELSE IF text[i] \in Mentions
       THEN <<text[i]>> \o FindMentionsFrom(text, i + 1)
       ELSE FindMentionsFrom(text, i + 1)
\* Only the first match (re.search in place of re.findall).
FindMentionsFirstOnly(text) ==
  IF FindMentionsFrom(text, 1) = <<>> THEN <<>> ELSE <<Head(FindMentionsFrom(text, 1))>>

FindMentions(text) == FindMentionsFrom(text, 1)

\* re.search(r'Response [A-Z]', m).group() for a numbered match m
SearchMention(m) == FindMentions(m)[1]

\* parts[0]: the text before the first marker.
TextBeforeMarker(parts) == parts[1]

\* ranking_section = parts[1]  (0-based in the source, 1-based here)
RankingSection(parts) == parts[2]

parse_ranking_from_text(text) ==
  IF ContainsMarker(text) /\ Len(Split(text)) >= 2
  THEN LET ranking_section == RankingSection(Split(text))
           numbered_matches == FindNumbered(ranking_section)
       IN IF numbered_matches # <<>>
          THEN [k \in 1..Len(numbered_matches) |-> SearchMention(numbered_matches[k])]
          ELSE FindMentions(ranking_section)
  ELSE FindMentions(text)

\* -------------------------------------------- calculate_aggregate_rankings
\* model_positions[model_name].append(position) on a defaultdict(list); the
\* dict keeps its keys in the order of their first insertion.
\* model_positions[model_name] = [position]: the list is replaced.
SetPosition(model_positions, model_name, position) ==
  IF \E k \in 1..Len(model_positions) : model_positions[k].model = model_name
  THEN [k \in 1..Len(model_positions) |->
          IF model_positions[k].model = model_name
          THEN [model_positions[k] EXCEPT !.positions = <<position>>]
          ELSE model_positions[k]]
  ELSE Append(model_positions, [model |-> model_name, positions |-> <<position>>])

AppendPosition(model_positions, model_name, position) ==
  IF \E k \in 1..Len(model_positions) : model_positions[k].model = model_name
  THEN [k \in 1..Len(model_positions) |->
          IF model_positions[k].model = model_name
          THEN [model_positions[k] EXCEPT !.positions = Append(@, position)]
          ELSE model_positions[k]]
  ELSE Append(model_positions, [model |-> model_name, positions |-> <<position>>])

\* enumerate(parsed_ranking) without start=1
FirstPositionZeroBased == 1 - 1

\* enumerate(parsed_ranking, start=1)
FirstPosition == 1

\* for position, label in enumerate(parsed_ranking, start=1): ...
RECURSIVE WalkRanking(_, _, _, _)
WalkRanking(parsed, i, ltm, model_positions) ==
  IF i > Len(parsed) THEN model_positions
  ELSE LET label == parsed[i]
           position == FirstPosition + (i - 1)
       IN WalkRanking(parsed, i + 1, ltm,
            IF label \in DOMAIN ltm
            THEN AppendPosition(model_positions, ltm[label], position)
            ELSE model_positions)

\* A label of the map that the reviewer's list omits is given the position
\* after the list's last (a fallback worst rank).
RECURSIVE AddOmitted(_, _, _, _)
AddOmitted(parsed, ltm, k, model_positions) ==
  IF k > Len(ResponseOfChr) THEN model_positions
  ELSE AddOmitted(parsed, ltm, k + 1,
         IF /\ ResponseOfChr[k] \in DOMAIN ltm
            /\ \A i \in 1..Len(parsed) : parsed[i] # ResponseOfChr[k]
         THEN AppendPosition(model_positions, ltm[ResponseOfChr[k]], Len(parsed) + 1)
         ELSE model_positions)
PositionsWithFallback(parsed, ltm, model_positions) ==
  AddOmitted(parsed, ltm, 1, WalkRanking(parsed, 1, ltm, model_positions))

\* The positions one reviewer's parsed list adds: those of the labels it
\* holds, nothing for a label it omits.
PositionsOfRanking(parsed, ltm, model_positions) ==
  WalkRanking(parsed, 1, ltm, model_positions)

\* for ranking in stage2_results: ... (the text is parsed again here)
RECURSIVE WalkReviewers(_, _, _, _)
WalkReviewers(s2, r, ltm, model_positions) ==
  IF r > Len(s2) THEN model_positions
  ELSE WalkReviewers(s2, r + 1, ltm,
         PositionsOfRanking(parse_ranking_from_text(s2[r].ranking), ltm, model_positions))

RECURSIVE Sum(_)
Sum(positions) ==
  IF positions = <<>> THEN 0 ELSE Head(positions) + Sum(Tail(positions))

\* round(sum / count, 2), in hundredths.  Python rounds the double to the
\* nearest hundredth and an exact half to the even neighbour.
Round2(sum, count) ==
  LET q == (100 * sum) \div count
      r == (100 * sum) % count
  IN IF 2 * r < count THEN q
     ELSE IF 2 * r > count THEN q + 1
     ELSE IF q % 2 = 0 THEN q ELSE q + 1

\* for model, positions in model_positions.items(): if positions: ...
RECURSIVE Averages(_, _)
Averages(model_positions, k) ==
  IF k > Len(model_positions) THEN <<>>
  ELSE LET positions == model_positions[k].positions
           rest == Averages(model_positions, k + 1)
       IN IF positions # <<>>
          THEN <<[model |-> model_positions[k].model,
                  average_rank |-> Round2(Sum(positions), Len(positions)),
                  rankings_count |-> Len(positions)]>> \o rest
          ELSE rest

\* A sort that is not stable: an entry goes before the entries of equal rank.
RECURSIVE InsertBeforeEqual(_, _)
InsertBeforeEqual(sorted, e) ==
  IF sorted = <<>> THEN <<e>>
  ELSE IF sorted[Len(sorted)].average_rank < e.average_rank
       THEN Append(sorted, e)
       ELSE Append(InsertBeforeEqual(SubSeq(sorted, 1, Len(sorted) - 1), e),
                   sorted[Len(sorted)])

\* aggregate.sort(key=lambda x: x['average_rank']): a stable sort.
RECURSIVE InsertByRank(_, _)
InsertByRank(sorted, e) ==
  IF sorted = <<>> THEN <<e>>
  ELSE IF sorted[Len(sorted)].average_rank <= e.average_rank
       THEN Append(sorted, e)
       ELSE Append(InsertByRank(SubSeq(sorted, 1, Len(sorted) - 1), e),
                   sorted[Len(sorted)])
RECURSIVE SortByRank(_, _)
SortByRank(aggregate, k) ==
  IF k = 0 THEN <<>>
  ELSE InsertByRank(SortByRank(aggregate, k - 1), aggregate[k])

calculate_aggregate_rankings(s2, ltm) ==
  LET model_positions == WalkReviewers(s2, 1, ltm, <<>>)
      aggregate == Averages(model_positions, 1)
  IN SortByRank(aggregate, Len(aggregate))

\* -------------------------------------------------------- check_for_crisis
\* CRISIS_KEYWORDS, each keyword a sequence of characters.
CRISIS_KEYWORDS ==
  << <<"s", "u", "i", "c", "i", "d", "e">>,
     <<"s", "u", "i", "c", "i", "d", "a", "l">>,
     <<"k", "i", "l", "l", " ", "m", "y", "s", "e", "l", "f">>,
     <<"e", "n", "d", " ", "m", "y", " ", "l", "i", "f", "e">>,
     <<"w", "a", "n", "t", " ", "t", "o", " ", "d", "i", "e">>,
     <<"s", "e", "l", "f", "-", "h", "a", "r", "m">>,
     <<"c", "u", "t", "t", "i", "n", "g">>,
     <<"h", "u", "r", "t", "i", "n", "g", " ", "m", "y", "s", "e", "l",
        "f">>,
     <<"e", "a", "t", "i", "n", "g", " ", "d", "i", "s", "o", "r", "d",
        "e", "r">>,
     <<"a", "n", "o", "r", "e", "x", "i", "a">>,
     <<"b", "u", "l", "i", "m", "i", "a">>,
     <<"s", "t", "a", "r", "v", "i", "n", "g">>,
     <<"a", "b", "u", "s", "e">>,
     <<"b", "e", "i", "n", "g", " ", "a", "b", "u", "s", "e", "d">>,
     <<"d", "o", "m", "e", "s", "t", "i", "c", " ", "v", "i", "o", "l",
        "e", "n", "c", "e">>,
     <<"p", "s", "y", "c", "h", "o", "s", "i", "s">>,
     <<"h", "e", "a", "r", "i", "n", "g", " ", "v", "o", "i", "c", "e",
        "s">>,
     <<"h", "a", "l", "l", "u", "c", "i", "n", "a", "t", "i", "o", "n",
        "s">>,
     <<"o", "v", "e", "r", "d", "o", "s", "e">>,
     <<"p", "i", "l", "l", "s">> >>

\* str.lower() on one character: an uppercase letter becomes its lowercase
\* letter, any other character of the queries here is left as it is.
UpperLetters ==
  <<"A", "B", "C", "D", "E", "F", "G", "H", "I", "J", "K", "L", "M", "N",
    "O", "P", "Q", "R", "S", "T", "U", "V", "W", "X", "Y", "Z">>
LowerLetters ==
  <<"a", "b", "c", "d", "e", "f", "g", "h", "i", "j", "k", "l", "m", "n",
    "o", "p", "q", "r", "s", "t", "u", "v", "w", "x", "y", "z">>
LowerChar(c) ==
  IF \E n \in 1..Len(UpperLetters) : UpperLetters[n] = c
  THEN LowerLetters[CHOOSE n \in 1..Len(UpperLetters) : UpperLetters[n] = c]
  ELSE c
\* A comparison that does not lower the query.
LowerIdentity(str) == str
Lower(str) == [i \in 1..Len(str) |-> LowerChar(str[i])]

\* keyword in query_lower
IsSubstring(keyword, str) ==
  \E i \in 0..(Len(str) - Len(keyword)) :
    \A j \in 1..Len(keyword) : str[i + j] = keyword[j]

check_for_crisis(query) ==
  LET query_lower == Lower(query)
  IN \E k \in 1..Len(CRISIS_KEYWORDS) : IsSubstring(CRISIS_KEYWORDS[k], query_lower)

\* ------------------------------------------------------------- query_model
\* A call of query_model: not yet made, in flight, returned a reply with
\* this content, or returned None.
Unissued == [status |-> "unissued", content |-> <<>>]
Pending == [status |-> "pending", content |-> <<>>]
ReturnedNone == [status |-> "none", content |-> <<>>]
Reply(text) == [status |-> "ok", content |-> text]
Settled(call) == call.status \in {"ok", "none"}

\* The user queries a run is started with.
Queries == { <<"m", "y", " ", "P", "i", "l", "l", "s">>, <<"a", "c", "h", "e">> }

\* The contents a member's Stage-1 reply may have.
Stage1Contents == { <<Word>> }

\* A numbered list of the labels of the answers in this order:
\* "1. Response B  2. Response A ..."
NumberedList(order) ==
  [i \in 1..(2 * Len(order)) |->
     IF i % 2 = 1 THEN Num ELSE ResponseOfChr[order[i \div 2]]]

\* The contents a member's Stage-2 reply may have: no text, a well-formed
\* ranking of all the labels, the reverse ranking, bare mentions without the marker, a ranking
\* that names a letter no Stage-1 answer can carry, a repeated mention, and
\* a text with two markers.
Stage2Contents ==
  LET A == ResponseOfChr[1]
      B == ResponseOfChr[2]
      Beyond == ResponseOfChr[NumMembers + 1]
  IN { <<>>,
       <<Word, Marker>> \o NumberedList([k \in 1..NumMembers |-> k]),
       <<Word, Marker>> \o NumberedList([k \in 1..NumMembers |-> NumMembers + 1 - k]),
       <<B, Word, A>>,
       <<Marker, Num, Beyond, Num, A>>,
       <<Marker, A, A>>,
       <<Marker, Num, A, Marker, Num, B>> }

\* The contents the chairman's reply may have.
ChairmanContents == { <<Word>> }

\* ------------------------------------------------ stage1_collect_responses
AllPending == [m \in Members |-> Pending]
AllUnissued == [m \in Members |-> Unissued]

\* A wait that returns on the first completion instead of on all of them.
Stage1GatheredFirstCompleted == \E m \in Members : Settled(stage1_calls[m])

\* responses = await asyncio.gather(*tasks): resumes when every call settled
Stage1Gathered == \A m \in Members : Settled(stage1_calls[m])

\* Results taken in the order of completion (as asyncio.as_completed gives them).
Stage1CompletionOrder == completed1

\* gather returns the responses in the order of its arguments, so the
\* zip(COUNCIL_MODELS, responses) pairs each model with its own response.
Stage1ZipOrder == COUNCIL_MODELS

\* for model, response in zip(...): if response is not None: append
RECURSIVE Stage1Format(_, _, _)
Stage1Format(order, calls, k) ==
  IF k > Len(order) THEN <<>>
  ELSE LET model == order[k]
           rest == Stage1Format(order, calls, k + 1)
       IN IF calls[model].status = "ok"
          THEN <<[model |-> model, response |-> calls[model].content]>> \o rest
          ELSE rest

\* ------------------------------------------------- stage2_collect_rankings
\* A label taken from the member's index in COUNCIL_MODELS instead.
LabelAtConfigIndex(results, i) ==
  ResponseOfChr[CHOOSE k \in 1..Len(COUNCIL_MODELS) : COUNCIL_MODELS[k] = results[i].model]

\* labels = [chr(65 + i) for i in range(len(stage1_results))], as "Response X"
LabelAt(results, i) == ResponseOfChr[i]

\* d[key] = value
DictPut(d, key, value) ==
  [x \in (DOMAIN d) \cup {key} |-> IF x = key THEN value ELSE d[x]]

\* {f"Response {label}": result['model'] for label, result in zip(labels, results)}
RECURSIVE LabelToModel(_, _)
LabelToModel(results, n) ==
  IF n = 0 THEN <<>>
  ELSE DictPut(LabelToModel(results, n - 1), LabelAt(results, n), results[n].model)

\* A ranking request only to the members that answered in Stage 1.
Stage2TasksRespondentsOnly(results) ==
  [m \in Members |->
     IF \E k \in 1..Len(results) : results[k].model = m THEN Pending ELSE Unissued]

\* for model in COUNCIL_MODELS: tasks.append(query_model(model, messages))
Stage2Tasks(results) == AllPending

\* responses = await asyncio.gather(*tasks)
Stage2Gathered == \A m \in Members : Settled(stage2_calls[m])

\* for model, response in zip(...): if response is not None: the text is
\* parsed and stored with the parsed list as the parser returned it
RECURSIVE Stage2Format(_, _, _)
Stage2Format(order, calls, k) ==
  IF k > Len(order) THEN <<>>
  ELSE LET model == order[k]
           rest == Stage2Format(order, calls, k + 1)
       IN IF calls[model].status = "ok"
          THEN <<[model |-> model,
                  ranking |-> calls[model].content,
                  parsed_ranking |-> parse_ranking_from_text(calls[model].content)]>> \o rest
          ELSE rest

\* ------------------------------------------------- stage3_synthesize_final
SynthesisError == <<"Error: Unable to generate final synthesis.">>

\* The reply's content taken without the check for None.
stage3_result_unchecked(call) == [model |-> CHAIRMAN_MODEL, response |-> call.content]

\* if response is None: the fallback; else the reply's content
stage3_result(call) ==
  IF call.status = "none"
  THEN [model |-> CHAIRMAN_MODEL, response |-> SynthesisError]
  ELSE [model |-> CHAIRMAN_MODEL, response |-> call.content]

\* -------------------------------------------------------- run_full_council
AllFailed == <<"All wellness professionals failed to respond. Please try again.">>

\* The check for an empty Stage 1 left out.
NoResultsUnchecked(results) == FALSE

\* if not stage1_results
NoResults(results) == results = <<>>

\* async def run_full_council(user_query): the only parameter
RunFullCouncilParameters == {"user_query"}

\* The calls of run_full_council: with the query alone, and as main.py makes
\* them, with user_profile= and follow_up_context= besides the query.
CallSites == { {}, {"user_profile", "follow_up_context"} }

\* Python binds the arguments when the coroutine function is called; a
\* keyword that names no parameter raises TypeError before the body runs.
ArgumentsBind == call_keywords \subseteq RunFullCouncilParameters

\* No query_model call made yet.
NoQueries ==
  [stage1 |-> [m \in Members |-> 0], stage2 |-> [m \in Members |-> 0], chairman |-> 0]

\* A loop that makes a second call for every model.
TwoTasksPerModel(sent) == [m \in Members |-> sent[m] + 2]

\* for model in COUNCIL_MODELS: tasks.append(query_model(model, messages)):
\* one call for every model
OneTaskPerModel(sent) == [m \in Members |-> sent[m] + 1]

RunInit ==
  /\ pc = "start"
  /\ user_query \in Queries
  /\ call_keywords \in CallSites
  /\ queries_sent = NoQueries
  /\ is_crisis = FALSE
  /\ stage1_calls = AllUnissued
  /\ stage2_calls = AllUnissued
  /\ chairman_call = Unissued
  /\ completed1 = <<>>
  /\ stage1_results = <<>>
  /\ label_to_model = <<>>
  /\ stage2_results = <<>>
  /\ aggregate_rankings = <<>>
  /\ returned = <<>>

CallRaises ==
  /\ pc = "start"
  /\ ~ArgumentsBind
  /\ pc' = "raised"
  /\ UNCHANGED <<user_query, call_keywords, queries_sent, is_crisis, stage1_calls, stage2_calls,
                 chairman_call, completed1, stage1_results, label_to_model,
                 stage2_results, aggregate_rankings, returned>>

\* The metadata of the zero-response return: the crisis flag alone.
AbortMetadataNoCrisis(flag) == [is_crisis |-> FALSE]
AbortMetadata(flag) == [is_crisis |-> flag]

\* run_full_council up to its first await: the crisis check, then Stage 1
\* makes one call per member and waits in gather.
Start ==
  /\ pc = "start"
  /\ ArgumentsBind
  /\ is_crisis' = check_for_crisis(user_query)
  /\ stage1_calls' = AllPending
  /\ queries_sent' = [queries_sent EXCEPT !.stage1 = OneTaskPerModel(@)]
  /\ pc' = "stage1"
  /\ UNCHANGED <<user_query, call_keywords, stage2_calls, chairman_call, completed1,
                 stage1_results, label_to_model, stage2_results,
                 aggregate_rankings, returned>>

\* A Stage-1 call settles: a reply, or None on failure or timeout.
Stage1Complete(m, outcome) ==
  /\ stage1_calls[m].status = "pending"
  /\ stage1_calls' = [stage1_calls EXCEPT ![m] = outcome]
  /\ completed1' = Append(completed1, m)
  /\ UNCHANGED <<pc, user_query, call_keywords, queries_sent, is_crisis, stage2_calls, chairman_call,
                 stage1_results, label_to_model, stage2_results,
                 aggregate_rankings, returned>>

\* gather of Stage 1 returns with no result: run_full_council returns the error.
Stage1Abort ==
  /\ pc = "stage1"
  /\ Stage1Gathered
  /\ LET results == Stage1Format(Stage1ZipOrder, stage1_calls, 1)
     IN /\ NoResults(results)
        /\ stage1_results' = results
        /\ returned' = << <<>>, <<>>,
                          [model |-> "error", response |-> AllFailed],
                          AbortMetadata(is_crisis) >>
  /\ pc' = "aborted"
  /\ UNCHANGED <<user_query, call_keywords, queries_sent, is_crisis, stage1_calls, stage2_calls,
                 chairman_call, completed1, label_to_model, stage2_results,
                 aggregate_rankings>>

\* gather of Stage 1 returns with results: Stage 2 builds the labels and the
\* label map, makes one call per member and waits in gather.
Stage1Join ==
  /\ pc = "stage1"
  /\ Stage1Gathered
  /\ LET results == Stage1Format(Stage1ZipOrder, stage1_calls, 1)
     IN /\ ~NoResults(results)
        /\ stage1_results' = results
        /\ label_to_model' = LabelToModel(results, Len(results))
        /\ stage2_calls' = Stage2Tasks(results)
  /\ queries_sent' = [queries_sent EXCEPT !.stage2 = OneTaskPerModel(@)]
  /\ pc' = "stage2"
  /\ UNCHANGED <<user_query, call_keywords, is_crisis, stage1_calls, chairman_call,
                 completed1, stage2_results, aggregate_rankings, returned>>

\* A Stage-2 call settles.
Stage2Complete(m, outcome) ==
  /\ stage2_calls[m].status = "pending"
  /\ stage2_calls' = [stage2_calls EXCEPT ![m] = outcome]
  /\ UNCHANGED <<pc, user_query, call_keywords, queries_sent, is_crisis, stage1_calls, chairman_call,
                 completed1, stage1_results, label_to_model, stage2_results,
                 aggregate_rankings, returned>>

\* gather of Stage 2 returns: the results are formatted and parsed, the
\* aggregate is computed, Stage 3 calls the chairman and waits.
Stage2Join ==
  /\ pc = "stage2"
  /\ Stage2Gathered
  /\ stage2_results' = Stage2Format(COUNCIL_MODELS, stage2_calls, 1)
  /\ aggregate_rankings' = calculate_aggregate_rankings(stage2_results', label_to_model)
  /\ chairman_call' = Pending
  /\ queries_sent' = [queries_sent EXCEPT !.chairman = @ + 1]
  /\ pc' = "stage3"
  /\ UNCHANGED <<user_query, call_keywords, is_crisis, stage1_calls, stage2_calls,
                 completed1, stage1_results, label_to_model, returned>>

\* The chairman's call settles.
ChairmanComplete(outcome) ==
  /\ chairman_call.status = "pending"
  /\ chairman_call' = outcome
  /\ UNCHANGED <<pc, user_query, call_keywords, queries_sent, is_crisis, stage1_calls, stage2_calls,
                 completed1, stage1_results, label_to_model, stage2_results,
                 aggregate_rankings, returned>>

\* Metadata whose label map is built again, from the Stage-2 list.
MetadataRelabelled(ltm, aggregate, flag) ==
  [label_to_model |-> LabelToModel(stage2_results, Len(stage2_results)),
   aggregate_rankings |-> aggregate, is_crisis |-> flag]

\* metadata = {"label_to_model": ..., "aggregate_rankings": ..., "is_crisis": ...}
Metadata(ltm, aggregate, flag) ==
  [label_to_model |-> ltm, aggregate_rankings |-> aggregate, is_crisis |-> flag]

\* Stage 3 returns and run_full_council returns the four results.
Stage3Return ==
  /\ pc = "stage3"
  /\ Settled(chairman_call)
  /\ returned' = << stage1_results, stage2_results, stage3_result(chairman_call),
                    Metadata(label_to_model, aggregate_rankings, is_crisis) >>
  /\ pc' = "done"
  /\ UNCHANGED <<user_query, call_keywords, queries_sent, is_crisis, stage1_calls, stage2_calls,
                 chairman_call, completed1, stage1_results, label_to_model,
                 stage2_results, aggregate_rankings>>

\* ------------------------------------------------------ the pure functions
ParseIdle == parse_pc = "idle" /\ ranking_text = <<>> /\ parsed_ranking = <<>>
AggIdle ==
  /\ agg_pc = "idle"
  /\ agg_stage2 = <<>>
  /\ agg_label_to_model = <<>>
  /\ agg_result = <<>>
RunIdle ==
  /\ pc = "idle"
  /\ user_query = <<>>
  /\ call_keywords = {}
  /\ queries_sent = NoQueries
  /\ is_crisis = FALSE
  /\ stage1_calls = AllUnissued
  /\ stage2_calls = AllUnissued
  /\ chairman_call = Unissued
  /\ completed1 = <<>>
  /\ stage1_results = <<>>
  /\ label_to_model = <<>>
  /\ stage2_results = <<>>
  /\ aggregate_rankings = <<>>
  /\ returned = <<>>

\* The texts the parser is called with on its own.
Texts == SeqsUpTo(Tokens, MaxTextLen)

ParseInit == parse_pc = "called" /\ ranking_text \in Texts /\ parsed_ranking = <<>>

\* parse_ranking_from_text(ranking_text) returns
ParseReturn ==
  /\ parse_pc = "called"
  /\ parsed_ranking' = parse_ranking_from_text(ranking_text)
  /\ parse_pc' = "returned"
  /\ UNCHANGED ranking_text

\* The arguments the aggregator is called with on its own: the Stage-2
\* results of up to NumMembers reviewers, each text a list of mentions, and
\* the label map of a Stage-1 result list.
RankMentions == {ResponseOfChr[1], ResponseOfChr[2], ResponseOfChr[3]}
RankTexts == SeqsUpTo(RankMentions, MaxRankLen)
ReviewerLists ==
  {[k \in 1..Len(texts) |->
      [model |-> COUNCIL_MODELS[k], ranking |-> texts[k],
       parsed_ranking |-> parse_ranking_from_text(texts[k])]] :
     texts \in SeqsUpTo(RankTexts, NumMembers)}
Stage1Lists ==
  {Stage1Format(COUNCIL_MODELS, calls, 1) :
     calls \in [Members -> {ReturnedNone, Reply(<<Word>>)}]} \ {<<>>}
LabelMaps == {LabelToModel(results, Len(results)) : results \in Stage1Lists}

AggInit ==
  /\ agg_pc = "called"
  /\ agg_stage2 \in ReviewerLists
  /\ agg_label_to_model \in LabelMaps
  /\ agg_result = <<>>

\* calculate_aggregate_rankings(stage2_results, label_to_model) returns
AggReturn ==
  /\ agg_pc = "called"
  /\ agg_result' = calculate_aggregate_rankings(agg_stage2, agg_label_to_model)
  /\ agg_pc' = "returned"
  /\ UNCHANGED <<agg_stage2, agg_label_to_model>>

\* The Stage-1 result lists the labelling is given on its own: a council of
\* MaxResults members, named by their place in the configuration, of which
\* the members from one place to another answered.
ResultLists ==
  {[k \in 1..(last - first + 1) |-> [model |-> first + k - 1, response |-> <<Word>>]] :
     first \in 1..MaxResults, last \in 0..MaxResults}

AnonIdle == anon_pc = "idle" /\ anon_results = <<>> /\ anon_label_to_model = <<>>
AnonInit ==
  /\ anon_pc = "called"
  /\ anon_results \in ResultLists
  /\ anon_label_to_model = <<>>

\* labels = [...]; label_to_model = {...}: the comprehensions run to their end
AnonReturn ==
  /\ anon_pc = "called"
  /\ anon_label_to_model' = LabelToModel(anon_results, Len(anon_results))
  /\ anon_pc' = "labelled"
  /\ UNCHANGED anon_results

CrisisIdle == crisis_pc = "idle" /\ crisis_query = <<>> /\ crisis_result = FALSE

\* The queries the crisis detector is called with on its own: every string of
\* up to MaxQueryLen characters over a few letters of one keyword in both
\* cases, and some whole sentences.
CrisisAlphabet == {"p", "i", "l", "s", "I", "S"}
EndMyLife ==
  <<"I", " ", "w", "a", "n", "t", " ", "t", "o", " ", "e", "n", "d", " ",
    "m", "y", " ", "l", "i", "f", "e">>
EndMyLifeUpper ==
  <<"I", " ", "W", "A", "N", "T", " ", "T", "O", " ", "E", "N", "D", " ",
    "M", "Y", " ", "L", "I", "F", "E">>
EndMyLifeLower ==
  <<"i", " ", "w", "a", "n", "t", " ", "t", "o", " ", "e", "n", "d", " ",
    "m", "y", " ", "l", "i", "f", "e">>
EndMyLifeMixed ==
  <<"H", "e", "l", "p", ",", " ", "I", " ", "w", "A", "n", "T", " ", "t",
    "O", " ", "e", "N", "d", " ", "m", "Y", " ", "L", "i", "F", "e", " ",
    "n", "o", "w">>
Headache ==
  <<"I", " ", "h", "a", "v", "e", " ", "a", " ", "h", "e", "a", "d", "a",
    "c", "h", "e">>
HeadacheUpper ==
  <<"I", " ", "H", "A", "V", "E", " ", "A", " ", "H", "E", "A", "D", "A",
    "C", "H", "E">>
Sentences == {EndMyLife, EndMyLifeUpper, EndMyLifeLower, EndMyLifeMixed, Headache, HeadacheUpper}
CrisisQueries == SeqsUpTo(CrisisAlphabet, MaxQueryLen) \cup Sentences

CrisisInit ==
  /\ crisis_pc = "called"
  /\ crisis_query \in CrisisQueries
  /\ crisis_result = FALSE

\* check_for_crisis(user_query) returns
CrisisReturn ==
  /\ crisis_pc = "called"
  /\ crisis_result' = check_for_crisis(crisis_query)
  /\ crisis_pc' = "returned"
  /\ UNCHANGED crisis_query

\* ------------------------------------------- generate_conversation_title
\* str.strip(chars): the characters of the set are removed from both ends.
RECURSIVE LStrip(_, _)
LStrip(str, chars) ==
  IF str # <<>> /\ Head(str) \in chars THEN LStrip(Tail(str), chars) ELSE str
RECURSIVE RStrip(_, _)
RStrip(str, chars) ==
  IF str # <<>> /\ str[Len(str)] \in chars
  THEN RStrip(SubSeq(str, 1, Len(str) - 1), chars) ELSE str
Strip(str, chars) == RStrip(LStrip(str, chars), chars)

\* The white space of the replies here, and the characters of strip('"\'').
Whitespace == {" "}
QuoteChars == {"\"", "'"}

TitleFallback == <<"N", "e", "w", " ", "C", "o", "n", "v", "e", "r", "s", "a", "t", "i", "o", "n">>
Ellipsis == <<".", ".", ".">>
\* if len(title) > 50
TitleLimit == 50
\* title[:47]
TitleKept == 47

\* title = title[:50] + "...": the cut keeps the whole budget.
TruncateAtLimit(title) ==
  IF Len(title) > TitleLimit THEN SubSeq(title, 1, TitleLimit) \o Ellipsis ELSE title

\* if len(title) > 50: title = title[:47] + "..."
Truncate(title) ==
  IF Len(title) > TitleLimit THEN SubSeq(title, 1, TitleKept) \o Ellipsis ELSE title

\* what generate_conversation_title returns for a settled call
title_of(call) ==
  IF call.status = "none" THEN TitleFallback
  ELSE Truncate(Strip(Strip(call.content, Whitespace), QuoteChars))

\* The contents a title reply may have: a body of letters and inner spaces,
\* with white space and quotes before and after it.
TitleLetters == <<"a", "b", "c", "d", "e", "f", " ">>
TitleBody(n) == [i \in 1..n |-> TitleLetters[(i % Len(TitleLetters)) + 1]]
Pads ==
  SeqsUpTo(Whitespace \cup QuoteChars, MaxPadLen)
    \cup { <<"\"", " ">>, <<" ", "\"">>, <<"'", "\"">> }
TitleContents ==
  {lead \o TitleBody(n) \o trail : lead \in Pads, trail \in Pads, n \in 0..MaxTitleLen}

TitleInit ==
  /\ title_pc = "awaiting"
  /\ title_call = Pending
  /\ title_result = <<>>

\* The title call settles.
TitleComplete(outcome) ==
  /\ title_pc = "awaiting"
  /\ title_call.status = "pending"
  /\ title_call' = outcome
  /\ UNCHANGED <<title_pc, title_result>>

\* generate_conversation_title resumes and returns
TitleReturn ==
  /\ title_pc = "awaiting"
  /\ Settled(title_call)
  /\ title_result' = title_of(title_call)
  /\ title_pc' = "returned"
  /\ UNCHANGED title_call

TitleIdle ==
  /\ title_pc = "idle"
  /\ title_call = Unissued
  /\ title_result = <<>>

\* A match list that outlives the call (a module-level list, or a mutable
\* default argument).
CarriedMatches(matches) == matches

\* What a call of parse_ranking_from_text leaves behind for the next call:
\* parts, ranking_section, numbered_matches and matches are locals, and
\* re.findall builds a new list on every call.
Carried(matches) == <<>>

TwiceInit ==
  /\ twice_pc = "called"
  /\ twice_text \in Texts
  /\ twice_carried = <<>>
  /\ twice_first = <<>>
  /\ twice_second = <<>>

\* parse_ranking_from_text(text) returns, the first time
ParseFirst ==
  /\ twice_pc = "called"
  /\ twice_first' = twice_carried \o parse_ranking_from_text(twice_text)
  /\ twice_carried' = Carried(twice_first')
  /\ twice_pc' = "once"
  /\ UNCHANGED <<twice_text, twice_second>>

\* parse_ranking_from_text(text) returns, the second time
ParseSecond ==
  /\ twice_pc = "once"
  /\ twice_second' = twice_carried \o parse_ranking_from_text(twice_text)
  /\ twice_carried' = Carried(twice_second')
  /\ twice_pc' = "twice"
  /\ UNCHANGED <<twice_text, twice_first>>

TwiceIdle ==
  /\ twice_pc = "idle"
  /\ twice_text = <<>>
  /\ twice_carried = <<>>
  /\ twice_first = <<>>
  /\ twice_second = <<>>

\* ------------------------------------------------ main.create_conversation
FREE_CONVERSATION_LIMIT == 2
Requests == 1..MaxRequests
\* A conversation is named by what made it: a row that was there before, or
\* the request that inserted it (uuid4 gives every insert a new id).
Existing(n) == {<<"before", k>> : k \in 1..n}

\* The user's requests arrive; each runs in its own session (transaction),
\* which get_db_session commits after the handler has returned.
ConvInit ==
  /\ conv_tier \in {"free", "paid"}
  /\ conv_rows \in {Existing(n) : n \in 0..FREE_CONVERSATION_LIMIT}
  /\ req_pc = [r \in Requests |-> "arrived"]
  /\ req_seen = [r \in Requests |-> 0]

\* subscription = await get_subscription(...); a paying user goes straight
\* to the insert, a free user to the count.
GetSubscription(r) ==
  /\ req_pc[r] = "arrived"
  /\ req_pc' = [req_pc EXCEPT ![r] = IF conv_tier = "free" THEN "count" ELSE "insert"]
  /\ UNCHANGED <<conv_tier, conv_rows, req_seen>>

\* if len(existing_conversations) >= config.FREE_CONVERSATION_LIMIT
OverLimit(count) == count >= FREE_CONVERSATION_LIMIT

\* existing_conversations = await list_conversations(...): the session reads
\* the committed rows (its own session has inserted nothing yet); at the
\* limit the handler raises 402 and the session is rolled back.
ListConversations(r) ==
  /\ req_pc[r] = "count"
  /\ req_seen' = [req_seen EXCEPT ![r] = Cardinality(conv_rows)]
  /\ req_pc' = [req_pc EXCEPT ![r] =
                  IF OverLimit(req_seen'[r]) THEN "402" ELSE "insert"]
  /\ UNCHANGED <<conv_tier, conv_rows>>

\* conversation = await db_storage.create_conversation(...): the row is added
\* and flushed inside the session; the handler returns the conversation.
InsertConversation(r) ==
  /\ req_pc[r] = "insert"
  /\ req_pc' = [req_pc EXCEPT ![r] = "flushed"]
  /\ UNCHANGED <<conv_tier, conv_rows, req_seen>>

\* await session.commit(): the row becomes visible to the other sessions.
CommitConversation(r) ==
  /\ req_pc[r] = "flushed"
  /\ conv_rows' = conv_rows \cup {<<"request", r>>}
  /\ req_pc' = [req_pc EXCEPT ![r] = "200"]
  /\ UNCHANGED <<conv_tier, req_seen>>

ConvIdle ==
  /\ conv_tier = "free"
  /\ conv_rows = {}
  /\ req_pc = [r \in Requests |-> "idle"]
  /\ req_seen = [r \in Requests |-> 0]

\* ------------------------------------- main.create_profile, update_profile
\* The row of the users table for the user, or its absence.
NoUser ==
  [exists |-> FALSE, gender |-> "", age_range |-> "", mood |-> "",
   profile_locked |-> FALSE]
NoRequest == [op |-> "none", status |-> 0]
\* The bodies a CreateProfileRequest may have.
ProfileData ==
  [gender : {"female", "male"}, age_range : {"18-24", "25-34"}, mood : {"calm", "low"}]

\* create_user_profile: User(..., profile_locked=False)
LockOnCreate == FALSE

\* POST /api/users/profile: 400 when a row exists, otherwise the row is made.
create_profile(data) ==
  /\ prof_handled < MaxProfileRequests
  /\ prof_handled' = prof_handled + 1
  /\ IF prof_row.exists
     THEN /\ prof_last' = [op |-> "create", status |-> 400]
          /\ UNCHANGED <<prof_row, prof_original>>
     ELSE /\ prof_row' = [exists |-> TRUE, gender |-> data.gender,
                          age_range |-> data.age_range, mood |-> data.mood,
                          profile_locked |-> LockOnCreate]
          /\ prof_original' = prof_row'
          /\ prof_last' = [op |-> "create", status |-> 200]

\* PATCH /api/users/profile: update_user_profile raises ValueError (answered
\* 400) when there is no row or the row is locked, otherwise it writes the
\* three fields.
update_profile(data) ==
  /\ prof_handled < MaxProfileRequests
  /\ prof_handled' = prof_handled + 1
  /\ IF ~prof_row.exists \/ prof_row.profile_locked
     THEN /\ prof_last' = [op |-> "update", status |-> 400]
          /\ UNCHANGED <<prof_row, prof_original>>
     ELSE /\ prof_row' = [prof_row EXCEPT !.gender = data.gender,
                                          !.age_range = data.age_range,
                                          !.mood = data.mood]
          /\ prof_last' = [op |-> "update", status |-> 200]
          /\ UNCHANGED prof_original

ProfInit ==
  /\ prof_row = NoUser
  /\ prof_original = NoUser
  /\ prof_last = NoRequest
  /\ prof_handled = 0

ProfIdle ==
  /\ prof_row = NoUser
  /\ prof_original = NoUser
  /\ prof_last = NoRequest
  /\ prof_handled = 0

\* ------------------------------------ main: the conversation endpoints
Users == {"alice", "bob"}
NoConversation ==
  [exists |-> FALSE, user_id |-> "none", title |-> "None", starred |-> FALSE,
   messages |-> 0, has_follow_up |-> FALSE]

\* No ownership check at all.
OwnsAlways(conversation, caller) == TRUE

\* conversation.get("user_id") != user["user_id"] raises 403
Owns(conversation, caller) == conversation.user_id = caller

Answer(endpoint, caller, status) ==
  /\ acc_handled < MaxAccessRequests
  /\ acc_handled' = acc_handled + 1
  /\ acc_last' = [endpoint |-> endpoint, caller |-> caller, status |-> status]

\* The start of every handler: 404 without the conversation, 403 for a
\* caller that is not its owner; the session has written nothing.
Refused(endpoint, caller) ==
  /\ ~acc_conv.exists \/ ~Owns(acc_conv, caller)
  /\ Answer(endpoint, caller, IF ~acc_conv.exists THEN 404 ELSE 403)
  /\ UNCHANGED <<acc_conv, acc_council>>
Admitted(caller) == acc_conv.exists /\ Owns(acc_conv, caller)

get_conversation(caller) ==
  \/ Refused("get", caller)
  \/ /\ Admitted(caller)
     /\ Answer("get", caller, 200)
     /\ UNCHANGED <<acc_conv, acc_council>>

\* The user message and the title are written, then run_full_council is
\* called with keywords it does not take: the TypeError is answered 500 and
\* get_db_session rolls the session back.
send_message(caller) ==
  \/ Refused("message", caller)
  \/ /\ Admitted(caller)
     /\ acc_council' = acc_council + 1
     /\ Answer("message", caller, 500)
     /\ UNCHANGED acc_conv

\* The answer is a stream (200); its generator writes the user message and
\* calls stage1_collect_responses with keywords it does not take: the error
\* is sent as an event, and the session is committed or not with what the
\* generator had written by then.
send_message_stream(caller) ==
  \/ Refused("stream", caller)
  \/ /\ Admitted(caller)
     /\ acc_council' = acc_council + 1
     /\ \E written \in {0, 1} :
          acc_conv' = [acc_conv EXCEPT !.messages = @ + written]
     /\ Answer("stream", caller, 200)

\* 400 when the follow-up was already given or there is no user message to
\* ask again; otherwise run_full_council is called as in send_message.
submit_follow_up(caller) ==
  \/ Refused("follow-up", caller)
  \/ /\ Admitted(caller)
     /\ IF acc_conv.has_follow_up \/ acc_conv.messages = 0
        THEN Answer("follow-up", caller, 400) /\ UNCHANGED acc_council
        ELSE Answer("follow-up", caller, 500) /\ acc_council' = acc_council + 1
     /\ UNCHANGED acc_conv

toggle_star_conversation(caller) ==
  \/ Refused("star", caller)
  \/ /\ Admitted(caller)
     /\ acc_conv' = [acc_conv EXCEPT !.starred = ~@]
     /\ Answer("star", caller, 200)
     /\ UNCHANGED acc_council

update_conversation_title(caller, title) ==
  \/ Refused("title", caller)
  \/ /\ Admitted(caller)
     /\ acc_conv' = [acc_conv EXCEPT !.title = title]
     /\ Answer("title", caller, 200)
     /\ UNCHANGED acc_council

delete_conversation(caller) ==
  \/ Refused("delete", caller)
  \/ /\ Admitted(caller)
     /\ acc_conv' = NoConversation
     /\ Answer("delete", caller, 200)
     /\ UNCHANGED acc_council

\* A conversation of one of the users, as the endpoints may find it.
AccInit ==
  /\ acc_conv \in [exists : {TRUE}, user_id : Users, title : {"None", "first title"},
                    starred : BOOLEAN, messages : 0..MaxMessages,
                    has_follow_up : BOOLEAN]
  /\ acc_council = 0
  /\ acc_last = [endpoint |-> "none", caller |-> "none", status |-> 0]
  /\ acc_handled = 0

AccIdle ==
  /\ acc_conv = NoConversation
  /\ acc_council = 0
  /\ acc_last = [endpoint |-> "none", caller |-> "none", status |-> 0]
  /\ acc_handled = 0

\* ---------------------------------------------------------- specifications
Init == RunInit /\ ParseIdle /\ AggIdle /\ AnonIdle /\ CrisisIdle /\ TitleIdle /\ TwiceIdle /\ ConvIdle /\ ProfIdle /\ AccIdle

Next ==
  \/ CallRaises /\ UNCHANGED <<parseVars, aggVars, anonVars, crisisVars, titleVars, twiceVars, convVars, profVars, accVars>>
  \/ Start /\ UNCHANGED <<parseVars, aggVars, anonVars, crisisVars, titleVars, twiceVars, convVars, profVars, accVars>>
  \/ \E m \in Members :
       \E outcome \in {ReturnedNone} \cup {Reply(t) : t \in Stage1Contents} :
         Stage1Complete(m, outcome) /\ UNCHANGED <<parseVars, aggVars, anonVars, crisisVars, titleVars, twiceVars, convVars, profVars, accVars>>
  \/ Stage1Abort /\ UNCHANGED <<parseVars, aggVars, anonVars, crisisVars, titleVars, twiceVars, convVars, profVars, accVars>>
  \/ Stage1Join /\ UNCHANGED <<parseVars, aggVars, anonVars, crisisVars, titleVars, twiceVars, convVars, profVars, accVars>>
  \/ \E m \in Members :
       \E outcome \in {ReturnedNone} \cup {Reply(t) : t \in Stage2Contents} :
         Stage2Complete(m, outcome) /\ UNCHANGED <<parseVars, aggVars, anonVars, crisisVars, titleVars, twiceVars, convVars, profVars, accVars>>
  \/ Stage2Join /\ UNCHANGED <<parseVars, aggVars, anonVars, crisisVars, titleVars, twiceVars, convVars, profVars, accVars>>
  \/ \E outcome \in {ReturnedNone} \cup {Reply(t) : t \in ChairmanContents} :
       ChairmanComplete(outcome) /\ UNCHANGED <<parseVars, aggVars, anonVars, crisisVars, titleVars, twiceVars, convVars, profVars, accVars>>
  \/ Stage3Return /\ UNCHANGED <<parseVars, aggVars, anonVars, crisisVars, titleVars, twiceVars, convVars, profVars, accVars>>

\* One run of run_full_council.
Spec == Init /\ [][Next]_vars

\* One call of parse_ranking_from_text, for every text.
ParseNext == ParseReturn /\ UNCHANGED <<runVars, aggVars, anonVars, crisisVars, titleVars, twiceVars, convVars, profVars, accVars>>
ParseSpecInit == RunIdle /\ ParseInit /\ AggIdle /\ AnonIdle /\ CrisisIdle /\ TitleIdle /\ TwiceIdle /\ ConvIdle /\ ProfIdle /\ AccIdle
ParseSpec == ParseSpecInit /\ [][ParseNext]_vars

\* One call of calculate_aggregate_rankings, for every argument.
AggNext == AggReturn /\ UNCHANGED <<runVars, parseVars, anonVars, crisisVars, titleVars, twiceVars, convVars, profVars, accVars>>
AggSpecInit == RunIdle /\ ParseIdle /\ AggInit /\ AnonIdle /\ CrisisIdle /\ TitleIdle /\ TwiceIdle /\ ConvIdle /\ ProfIdle /\ AccIdle
AggSpec == AggSpecInit /\ [][AggNext]_vars

\* The labelling of stage2_collect_rankings, for every Stage-1 result list.
AnonNext == AnonReturn /\ UNCHANGED <<runVars, parseVars, aggVars, crisisVars, titleVars, twiceVars, convVars, profVars, accVars>>
AnonSpecInit == RunIdle /\ ParseIdle /\ AggIdle /\ AnonInit /\ CrisisIdle /\ TitleIdle /\ TwiceIdle /\ ConvIdle /\ ProfIdle /\ AccIdle
AnonSpec == AnonSpecInit /\ [][AnonNext]_vars

\* One call of check_for_crisis, for every query.
CrisisNext == CrisisReturn /\ UNCHANGED <<runVars, parseVars, aggVars, anonVars, titleVars, twiceVars, convVars, profVars, accVars>>
CrisisSpecInit == RunIdle /\ ParseIdle /\ AggIdle /\ AnonIdle /\ CrisisInit /\ TitleIdle /\ TwiceIdle /\ ConvIdle /\ ProfIdle /\ AccIdle
CrisisSpec == CrisisSpecInit /\ [][CrisisNext]_vars

\* One call of generate_conversation_title.
TitleNext ==
  \/ \E outcome \in {ReturnedNone} \cup {Reply(t) : t \in TitleContents} :
       TitleComplete(outcome)
         /\ UNCHANGED <<runVars, parseVars, aggVars, anonVars, crisisVars, twiceVars, convVars, profVars, accVars>>
  \/ TitleReturn /\ UNCHANGED <<runVars, parseVars, aggVars, anonVars, crisisVars, twiceVars, convVars, profVars, accVars>>
TitleSpecInit ==
  RunIdle /\ ParseIdle /\ AggIdle /\ AnonIdle /\ CrisisIdle /\ TitleInit /\ TwiceIdle /\ ConvIdle /\ ProfIdle /\ AccIdle
TitleSpec == TitleSpecInit /\ [][TitleNext]_vars

\* Two calls of parse_ranking_from_text on the same text, for every text.
TwiceNext ==
  \/ ParseFirst /\ UNCHANGED <<runVars, parseVars, aggVars, anonVars, crisisVars, titleVars, convVars, profVars, accVars>>
  \/ ParseSecond /\ UNCHANGED <<runVars, parseVars, aggVars, anonVars, crisisVars, titleVars, convVars, profVars, accVars>>
TwiceSpecInit ==
  RunIdle /\ ParseIdle /\ AggIdle /\ AnonIdle /\ CrisisIdle /\ TitleIdle /\ TwiceInit /\ ConvIdle /\ ProfIdle /\ AccIdle
TwiceSpec == TwiceSpecInit /\ [][TwiceNext]_vars

\* The create_conversation requests of one user, in every interleaving.
ConvNext ==
  \E r \in Requests :
    \/ GetSubscription(r)
         /\ UNCHANGED <<runVars, parseVars, aggVars, anonVars, crisisVars, titleVars, twiceVars, profVars, accVars>>
    \/ ListConversations(r)
         /\ UNCHANGED <<runVars, parseVars, aggVars, anonVars, crisisVars, titleVars, twiceVars, profVars, accVars>>
    \/ InsertConversation(r)
         /\ UNCHANGED <<runVars, parseVars, aggVars, anonVars, crisisVars, titleVars, twiceVars, profVars, accVars>>
    \/ CommitConversation(r)
         /\ UNCHANGED <<runVars, parseVars, aggVars, anonVars, crisisVars, titleVars, twiceVars, profVars, accVars>>
ConvSpecInit == RunIdle /\ ParseIdle /\ AggIdle /\ AnonIdle /\ CrisisIdle /\ TitleIdle /\ TwiceIdle /\ ConvInit /\ ProfIdle /\ AccIdle
ConvSpec == ConvSpecInit /\ [][ConvNext]_vars

\* The profile requests of one user, one after another.
ProfNext ==
  \E data \in ProfileData :
    \/ create_profile(data)
         /\ UNCHANGED <<runVars, parseVars, aggVars, anonVars, crisisVars, titleVars, twiceVars, convVars, accVars>>
    \/ update_profile(data)
         /\ UNCHANGED <<runVars, parseVars, aggVars, anonVars, crisisVars, titleVars, twiceVars, convVars, accVars>>
ProfSpecInit == RunIdle /\ ParseIdle /\ AggIdle /\ AnonIdle /\ CrisisIdle /\ TitleIdle /\ TwiceIdle /\ ConvIdle /\ ProfInit /\ AccIdle
ProfSpec == ProfSpecInit /\ [][ProfNext]_vars

\* The requests of the users on one conversation, one after another.
AccNext ==
  \E caller \in Users :
    \/ get_conversation(caller) /\ UNCHANGED <<runVars, parseVars, aggVars, anonVars, crisisVars, titleVars, twiceVars, convVars, profVars>>
    \/ send_message(caller) /\ UNCHANGED <<runVars, parseVars, aggVars, anonVars, crisisVars, titleVars, twiceVars, convVars, profVars>>
    \/ send_message_stream(caller) /\ UNCHANGED <<runVars, parseVars, aggVars, anonVars, crisisVars, titleVars, twiceVars, convVars, profVars>>
    \/ submit_follow_up(caller) /\ UNCHANGED <<runVars, parseVars, aggVars, anonVars, crisisVars, titleVars, twiceVars, convVars, profVars>>
    \/ toggle_star_conversation(caller) /\ UNCHANGED <<runVars, parseVars, aggVars, anonVars, crisisVars, titleVars, twiceVars, convVars, profVars>>
    \/ \E title \in {"renamed"} :
         update_conversation_title(caller, title) /\ UNCHANGED <<runVars, parseVars, aggVars, anonVars, crisisVars, titleVars, twiceVars, convVars, profVars>>
    \/ delete_conversation(caller) /\ UNCHANGED <<runVars, parseVars, aggVars, anonVars, crisisVars, titleVars, twiceVars, convVars, profVars>>
AccSpecInit == RunIdle /\ ParseIdle /\ AggIdle /\ AnonIdle /\ CrisisIdle /\ TitleIdle /\ TwiceIdle /\ ConvIdle /\ ProfIdle /\ AccInit
AccSpec == AccSpecInit /\ [][AccNext]_vars

\* The event loop: a call that is in flight settles, and run_full_council
\* resumes (or raises at the call) when the await it stands at has its result.
Settle ==
  \/ \E m \in Members :
       \E outcome \in {ReturnedNone} \cup {Reply(t) : t \in Stage1Contents} :
         Stage1Complete(m, outcome)
  \/ \E m \in Members :
       \E outcome \in {ReturnedNone} \cup {Reply(t) : t \in Stage2Contents} :
         Stage2Complete(m, outcome)
  \/ \E outcome \in {ReturnedNone} \cup {Reply(t) : t \in ChairmanContents} :
       ChairmanComplete(outcome)
Resume ==
  \/ pc = "start" /\ pc' \in {"stage1", "raised"}
  \/ pc = "stage1" /\ Stage1Gathered /\ pc' \in {"stage2", "aborted"}
  \/ pc = "stage2" /\ Stage2Gathered /\ pc' = "stage3"
  \/ pc = "stage3" /\ Settled(chairman_call) /\ pc' = "done"

\* One run of run_full_council in which every call that was issued settles
\* and every await that can resume does.
LiveSpec == Init /\ [][Next]_vars /\ WF_runVars(Settle) /\ WF_pc(Resume)

\* ================================================================== claims
\* What the claims speak of, stated without the operators of the model.
Issued(calls) == \E m \in Members : calls[m].status # "unissued"
ConfigIndex(model) == CHOOSE k \in 1..Len(COUNCIL_MODELS) : COUNCIL_MODELS[k] = model

MentionPositions(text) == {i \in 1..Len(text) : text[i] \in Mentions}
NumberedPositions(text) ==
  {i \in 2..Len(text) : text[i] \in Mentions /\ text[i - 1] = Num}
\* The tokens of text at the positions P, in order of appearance.
NthOf(P, k) == CHOOSE p \in P : Cardinality({q \in P : q <= p}) = k
TokensAt(text, P) == [k \in 1..Cardinality(P) |-> text[NthOf(P, k)]]
MarkerPositions(text) == {i \in 1..Len(text) : text[i] = Marker}
AfterLastMarker(text) ==
  LET last == CHOOSE i \in MarkerPositions(text) :
                \A j \in MarkerPositions(text) : j <= i
  IN SubSeq(text, last + 1, Len(text))

\* C1: no Stage-2 call is issued while a Stage-1 call is still in flight or
\* not yet made, and the chairman is not called while a Stage-2 call is still
\* in flight or not yet made, whatever the order of the completions.
C1_StageBarriers ==
  /\ Issued(stage2_calls) => \A m \in Members : Settled(stage1_calls[m])
  /\ chairman_call.status # "unissued" => \A m \in Members : Settled(stage2_calls[m])
\* Stage 3 is under way after Stage-1 calls that completed out of declaration order.
C1_Witness ==
  /\ chairman_call.status = "pending"
  /\ completed1 # COUNCIL_MODELS

\* C2: when every Stage-1 call returned None, no Stage-2 call and no chairman
\* call is ever made, and the run returns an empty Stage-1 list, an empty
\* Stage-2 list and a non-empty error message as the Stage-3 result.
C2_AbortOnNoResults ==
  (\A m \in Members : stage1_calls[m].status = "none") =>
     /\ ~Issued(stage2_calls)
     /\ chairman_call.status = "unissued"
     /\ pc \in {"stage1", "aborted"}
     /\ pc = "aborted" =>
          /\ returned[1] = <<>>
          /\ returned[2] = <<>>
          /\ returned[3].response # <<>>
C2_Witness ==
  /\ pc = "aborted"
  /\ \A m \in Members : stage1_calls[m].status = "none"
  /\ returned[3].response = AllFailed

\* C3: after Stage 1 the result list holds exactly the members whose call
\* succeeded, each once with its own reply, in declaration order, whatever
\* the order in which the calls completed.
C3_Stage1DeclarationOrder ==
  pc \in {"stage2", "stage3", "done", "aborted"} =>
     LET ok == {m \in Members : stage1_calls[m].status = "ok"}
         n == Len(stage1_results)
     IN /\ n = Cardinality(ok)
        /\ {stage1_results[i].model : i \in 1..n} = ok
        /\ \A i \in 1..n :
             stage1_results[i].response = stage1_calls[stage1_results[i].model].content
        /\ \A i, j \in 1..n :
             i < j => ConfigIndex(stage1_results[i].model) < ConfigIndex(stage1_results[j].model)
\* Both of the first two members succeeded and the second completed first.
C3_Witness ==
  /\ pc = "stage2"
  /\ completed1[1] = COUNCIL_MODELS[2]
  /\ stage1_calls[COUNCIL_MODELS[1]].status = "ok"
  /\ stage1_calls[COUNCIL_MODELS[2]].status = "ok"
  /\ stage1_results[1].model = COUNCIL_MODELS[1]

\* C4: for a Stage-1 result list of N >= 1 entries the label map has exactly
\* N entries, and its i-th label (A, B, ... by position in the result list)
\* maps to the agent of the i-th Stage-1 result.
C4_LabelsByResultPosition ==
  pc \in {"stage2", "stage3", "done"} =>
     LET n == Len(stage1_results)
     IN /\ n >= 1
        /\ Cardinality(DOMAIN label_to_model) = n
        /\ \A i \in 1..n :
             /\ ResponseOfChr[i] \in DOMAIN label_to_model
             /\ label_to_model[ResponseOfChr[i]] = stage1_results[i].model
        /\ \A i, j \in 1..n : i # j => ResponseOfChr[i] # ResponseOfChr[j]
\* The first member failed, so label A belongs to the second member.
C4_Witness ==
  /\ pc = "stage2"
  /\ stage1_calls[COUNCIL_MODELS[1]].status = "none"
  /\ DOMAIN label_to_model = {ResponseOfChr[1]}
  /\ label_to_model[ResponseOfChr[1]] = COUNCIL_MODELS[2]

\* The labels a section yields by the parser's rules: the numbered entries
\* if there is one, else the bare mentions.
LabelsOfSection(section) ==
  IF NumberedPositions(section) # {}
  THEN TokensAt(section, NumberedPositions(section))
  ELSE TokensAt(section, MentionPositions(section))

\* C5: when the marker occurs more than once, the parsed list holds the
\* labels of the text after the last marker only.
C5_AfterLastMarker ==
  (parse_pc = "returned" /\ Cardinality(MarkerPositions(ranking_text)) > 1) =>
     parsed_ranking = LabelsOfSection(AfterLastMarker(ranking_text))

\* C6: when the marker is present and the trailing section has a numbered
\* entry, the parsed list is the labels of the numbered entries of the
\* trailing section, in order of appearance, and nothing else.
C6_NumberedEntriesWin ==
  (/\ parse_pc = "returned"
   /\ MarkerPositions(ranking_text) # {}
   /\ NumberedPositions(AfterLastMarker(ranking_text)) # {}) =>
     parsed_ranking =
       TokensAt(AfterLastMarker(ranking_text),
                NumberedPositions(AfterLastMarker(ranking_text)))

\* C7: when the marker is present and the trailing section has no numbered
\* entry, the parsed list is every bare mention of the trailing section, in
\* order of appearance, repeats kept.
C7_BareMentionsOfSection ==
  (/\ parse_pc = "returned"
   /\ MarkerPositions(ranking_text) # {}
   /\ NumberedPositions(AfterLastMarker(ranking_text)) = {}) =>
     parsed_ranking =
       TokensAt(AfterLastMarker(ranking_text),
                MentionPositions(AfterLastMarker(ranking_text)))

\* With one marker only, C6 and C7 hold: the parsed list is the labels of
\* the section after the marker, numbered entries first, else bare mentions.
OneMarker_SectionLabels ==
  (parse_pc = "returned" /\ Cardinality(MarkerPositions(ranking_text)) = 1) =>
     parsed_ranking = LabelsOfSection(AfterLastMarker(ranking_text))

\* C8: when the marker is absent, the parsed list is every mention of the
\* whole text, in order of appearance; with no mention it is empty.
C8_NoMarkerWholeText ==
  (parse_pc = "returned" /\ MarkerPositions(ranking_text) = {}) =>
     /\ parsed_ranking = TokensAt(ranking_text, MentionPositions(ranking_text))
     /\ MentionPositions(ranking_text) = {} => parsed_ranking = <<>>
\* "Response C is strong, Response A is safer" parses to C, A.
C8_Witness ==
  /\ parse_pc = "returned"
  /\ ranking_text = <<ResponseOfChr[3], Word, ResponseOfChr[1], Word>>
  /\ parsed_ranking = <<ResponseOfChr[3], ResponseOfChr[1]>>

\* C9: every label of every stored parsed list of a run is a key of the
\* run's label map.
C9_ParsedLabelsInMap ==
  pc \in {"stage3", "done"} =>
     \A r \in 1..Len(stage2_results) :
       \A k \in 1..Len(stage2_results[r].parsed_ranking) :
         stage2_results[r].parsed_ranking[k] \in DOMAIN label_to_model

\* The occurrences <<reviewer, position>> of an agent's label in the
\* reviewers' parsed lists.
Occurrences(s2, ltm, agent) ==
  UNION {{<<r, p>> : p \in {q \in 1..Len(s2[r].parsed_ranking) :
                              /\ s2[r].parsed_ranking[q] \in DOMAIN ltm
                              /\ ltm[s2[r].parsed_ranking[q]] = agent}} :
         r \in 1..Len(s2)}
RECURSIVE SumOfPositions(_)
SumOfPositions(occ) ==
  IF occ = {} THEN 0
  ELSE LET rp == CHOOSE x \in occ : TRUE IN rp[2] + SumOfPositions(occ \ {rp})
\* hundredths is sum / count rounded to two decimals
IsRounded(hundredths, sum, count) ==
  /\ 2 * (hundredths * count - 100 * sum) <= count
  /\ 2 * (100 * sum - hundredths * count) <= count

\* C10: the aggregate has, for each agent whose label occurs in the parsed
\* lists, one entry whose mean is the mean of the 1-based positions of the
\* occurrences, rounded to two decimals.
C10_MeanOfPositions ==
  agg_pc = "returned" =>
     \A agent \in Members :
       LET occ == Occurrences(agg_stage2, agg_label_to_model, agent)
           entries == {k \in 1..Len(agg_result) : agg_result[k].model = agent}
       IN occ # {} =>
            /\ Cardinality(entries) = 1
            /\ \A k \in entries :
                 IsRounded(agg_result[k].average_rank,
                           SumOfPositions(occ), Cardinality(occ))
\* Rankings [[A, B], [B, A]] with A the first and B the second agent give 1.50 for both.
C10_Witness ==
  /\ agg_pc = "returned"
  /\ Len(agg_stage2) = 2
  /\ agg_stage2[1].parsed_ranking = <<ResponseOfChr[1], ResponseOfChr[2]>>
  /\ agg_stage2[2].parsed_ranking = <<ResponseOfChr[2], ResponseOfChr[1]>>
  /\ DOMAIN agg_label_to_model = {ResponseOfChr[1], ResponseOfChr[2]}
  /\ agg_label_to_model[ResponseOfChr[1]] = COUNCIL_MODELS[1]
  /\ agg_label_to_model[ResponseOfChr[2]] = COUNCIL_MODELS[2]
  /\ Len(agg_result) = 2
  /\ \A k \in 1..2 : agg_result[k].average_rank = 150

\* The first occurrence of an agent's label as the aggregator walks the
\* reviewers in order and each list from its first position.
Before(a, b) == a[1] < b[1] \/ (a[1] = b[1] /\ a[2] < b[2])
FirstOccurrence(s2, ltm, agent) ==
  CHOOSE a \in Occurrences(s2, ltm, agent) :
    \A b \in Occurrences(s2, ltm, agent) : a = b \/ Before(a, b)

\* C11: the aggregate is sorted by ascending mean position, and of two
\* entries with the same mean the one whose agent the aggregator met first
\* comes first.
C11_SortedStable ==
  agg_pc = "returned" =>
     \A i, j \in 1..Len(agg_result) :
       i < j =>
         /\ agg_result[i].average_rank <= agg_result[j].average_rank
         /\ agg_result[i].average_rank = agg_result[j].average_rank =>
              Before(FirstOccurrence(agg_stage2, agg_label_to_model, agg_result[i].model),
                     FirstOccurrence(agg_stage2, agg_label_to_model, agg_result[j].model))
\* Rankings [[B, A], [A, B]]: both means are 1.50 and the second agent, met first, leads.
C11_Witness ==
  /\ agg_pc = "returned"
  /\ Len(agg_stage2) = 2
  /\ agg_stage2[1].parsed_ranking = <<ResponseOfChr[2], ResponseOfChr[1]>>
  /\ agg_stage2[2].parsed_ranking = <<ResponseOfChr[1], ResponseOfChr[2]>>
  /\ agg_label_to_model[ResponseOfChr[1]] = COUNCIL_MODELS[1]
  /\ agg_label_to_model[ResponseOfChr[2]] = COUNCIL_MODELS[2]
  /\ Len(agg_result) = 2
  /\ agg_result[1].model = COUNCIL_MODELS[2]
  /\ agg_result[1].average_rank = agg_result[2].average_rank

\* C12: an agent whose label occurs in no parsed list has no entry in the
\* aggregate, and every entry counts at least one ranking.
C12_NoEntryWithoutRanking ==
  agg_pc = "returned" =>
     \A k \in 1..Len(agg_result) :
       /\ Occurrences(agg_stage2, agg_label_to_model, agg_result[k].model) # {}
       /\ agg_result[k].rankings_count >= 1
\* Two agents are in the label map, reviewers ranked, and only one agent has an entry.
C12_Witness ==
  /\ agg_pc = "returned"
  /\ Cardinality(DOMAIN agg_label_to_model) = 2
  /\ Len(agg_stage2) = 2
  /\ \A r \in 1..2 : agg_stage2[r].parsed_ranking = <<ResponseOfChr[1]>>
  /\ Len(agg_result) = 1
  /\ agg_result[1].model = agg_label_to_model[ResponseOfChr[1]]

\* C13: when the chairman's call returns None the run still completes: it
\* returns the sentinel message as the Stage-3 result, with the Stage-1 list,
\* the Stage-2 list, the label map and the aggregate computed before the call.
C13_ChairmanFailureKeepsResults ==
  chairman_call.status = "none" =>
     /\ pc \in {"stage3", "done"}
     /\ pc = "done" =>
          /\ returned[1] = stage1_results /\ stage1_results # <<>>
          /\ returned[2] = stage2_results
          /\ returned[3].response = SynthesisError
          /\ returned[4].label_to_model = label_to_model
          /\ returned[4].aggregate_rankings = aggregate_rankings
\* The chairman failed after a Stage 2 that produced rankings and an aggregate.
C13_Witness ==
  /\ pc = "done"
  /\ chairman_call.status = "none"
  /\ Len(returned[2]) = NumMembers
  /\ returned[4].aggregate_rankings # <<>>
  /\ returned[3].response = SynthesisError

\* C14: a call of run_full_council that passes user_profile and
\* follow_up_context, as the callers in main.py do, ends with a four-tuple.
C14_CallersGetFourTuple ==
  ("user_profile" \in call_keywords /\ pc \in {"done", "aborted", "raised"}) =>
     Len(returned) = 4


\* C15: in every terminal outcome of a run, the normal completion and the
\* zero-response abort, the returned metadata carries a crisis flag equal to
\* check_for_crisis on the raw user query.
C15_CrisisFlagInEveryOutcome ==
  pc \in {"done", "aborted"} =>
     /\ Len(returned) = 4
     /\ returned[4].is_crisis = check_for_crisis(user_query)
C15_Witness ==
  /\ pc = "aborted"
  /\ check_for_crisis(user_query)
  /\ returned[4].is_crisis


\* The phases of a run in the words of the claims, and the steps between them.
Terminal == pc \in {"done", "aborted"}
PhaseStep ==
  \/ pc' = pc
  \/ <<pc, pc'>> \in { <<"start", "stage1">>, <<"stage1", "stage2">>,
                       <<"stage1", "aborted">>, <<"stage2", "stage3">>,
                       <<"stage3", "done">> }
CompleteFourTuple ==
  /\ Len(returned) = 4
  /\ pc = "aborted" =>
        /\ returned[1] = <<>>
        /\ returned[2] = <<>>
        /\ returned[3].model = "error"

\* C16: when every agent call eventually settles, every run eventually reaches
\* one of the two terminal states, done or aborted for no responses, passes
\* through the phases only in the order crisis check, Stage 1, Stage 2 with
\* the aggregate, Stage 3, and the caller sees a complete four-tuple or the
\* total-failure sentinel and never an exception.
C16_EveryRunTerminates ==
  /\ (pc = "start") ~> Terminal
  /\ [][PhaseStep]_vars
  /\ [](Terminal => CompleteFourTuple)

\* The runs whose call binds its arguments do all of this: the only run that
\* does not end in a terminal state is the one that raises at the call.
BoundCalls_Terminate ==
  /\ (pc = "start" /\ ArgumentsBind) ~> Terminal
  /\ [][PhaseStep \/ (~ArgumentsBind /\ pc = "start" /\ pc' = "raised")]_vars
  /\ [](Terminal => CompleteFourTuple)


\* The members whose Stage-2 call returned a reply, in declaration order.
Stage2Succeeded == SelectSeq(COUNCIL_MODELS, LAMBDA m : stage2_calls[m].status = "ok")

\* C17: Stage 2 issues a ranking request to every configured member, whether
\* or not the member answered in Stage 1, and the Stage-2 result list is the
\* members whose Stage-2 call succeeded, in declaration order, each entry
\* holding the raw reply text and the parser's output on that text.
C17_Stage2EveryMember ==
  /\ pc \in {"stage2", "stage3", "done"} =>
        \A m \in Members : stage2_calls[m].status # "unissued"
  /\ pc \in {"stage3", "done"} =>
        /\ Len(stage2_results) = Len(Stage2Succeeded)
        /\ \A k \in 1..Len(stage2_results) :
              /\ stage2_results[k].model = Stage2Succeeded[k]
              /\ stage2_results[k].ranking = stage2_calls[Stage2Succeeded[k]].content
              /\ stage2_results[k].parsed_ranking =
                    parse_ranking_from_text(stage2_results[k].ranking)
  /\ pc = "done" => returned[2] = stage2_results
C17_Witness ==
  /\ pc = "done"
  /\ stage1_calls[COUNCIL_MODELS[1]].status = "none"
  /\ stage2_calls[COUNCIL_MODELS[1]].status = "ok"
  /\ stage2_calls[COUNCIL_MODELS[2]].status = "none"
  /\ Len(returned[2]) = 1
  /\ returned[2][1].model = COUNCIL_MODELS[1]
  /\ returned[2][1].parsed_ranking # <<>>


\* The labels that are one uppercase letter: "Response A" to "Response Z".
UppercaseLabels == {ResponseOfChr[i] : i \in 1..26}

\* C18: when the Stage-1 results need a label beyond 'Z' (more than 26
\* results) the anonymizer fails with an error, and it never emits a label
\* that is not a single uppercase letter.
C18_FailsBeyondZ ==
  /\ (anon_pc # "called" /\ Len(anon_results) > 26) => anon_pc = "raised"
  /\ DOMAIN anon_label_to_model \subseteq UppercaseLabels


\* Two characters that are equal when case is ignored, and a keyword that is
\* a substring of a query compared so.
SameLetter(a, b) ==
  \/ a = b
  \/ \E n \in 1..Len(UpperLetters) : {a, b} = {UpperLetters[n], LowerLetters[n]}
ContainsIgnoringCase(keyword, query) ==
  \E i \in 0..(Len(query) - Len(keyword)) :
    \A j \in 1..Len(keyword) : SameLetter(query[i + j], keyword[j])

\* C19: check_for_crisis returns true exactly when a configured crisis keyword
\* is a substring of the query compared case-insensitively: true for a query
\* that contains "I want to end my life" in any letter case, false for
\* "I have a headache".
C19_TrueExactlyOnKeyword ==
  crisis_pc = "returned" =>
    /\ crisis_result <=>
          \E k \in 1..Len(CRISIS_KEYWORDS) :
            ContainsIgnoringCase(CRISIS_KEYWORDS[k], crisis_query)
    /\ ContainsIgnoringCase(EndMyLife, crisis_query) => crisis_result
    /\ crisis_query = Headache => ~crisis_result
C19_Witness ==
  /\ crisis_pc = "returned"
  /\ crisis_query = EndMyLifeMixed
  /\ crisis_result


\* A reply whose text has one "FINAL RANKING:" marker followed by a numbered
\* list that names each of the N labels once and nothing else.
WellFormedFullRanking(text) ==
  /\ Cardinality(MarkerPositions(text)) = 1
  /\ LET section == AfterLastMarker(text)
     IN /\ Len(section) = 2 * NumMembers
        /\ \A i \in 1..NumMembers : section[2 * i - 1] = Num
        /\ {section[2 * i] : i \in 1..NumMembers} =
             {ResponseOfChr[i] : i \in 1..NumMembers}
AllSucceedWellFormed ==
  /\ \A m \in Members : stage1_calls[m].status = "ok"
  /\ \A m \in Members :
        /\ stage2_calls[m].status = "ok"
        /\ WellFormedFullRanking(stage2_calls[m].content)

\* C20: when all N members succeed in Stage 1 and every member succeeds in
\* Stage 2 with a well-formed "FINAL RANKING:" section ranking all N labels,
\* the aggregate has exactly N entries, one per member and each with N
\* contributing rankings, sorted by ascending mean rank; and when the
\* chairman replies, the Stage-3 result is the chairman's text, not the
\* sentinel.
C20_FullCouncilScenario ==
  (pc \in {"stage3", "done"} /\ AllSucceedWellFormed) =>
     /\ Len(aggregate_rankings) = NumMembers
     /\ {aggregate_rankings[k].model : k \in 1..NumMembers} = Members
     /\ \A k \in 1..NumMembers : aggregate_rankings[k].rankings_count = NumMembers
     /\ \A k \in 1..(NumMembers - 1) :
           aggregate_rankings[k].average_rank <= aggregate_rankings[k + 1].average_rank
     /\ pc = "done" =>
           /\ returned[4].aggregate_rankings = aggregate_rankings
           /\ Len(returned[1]) = NumMembers
           /\ Len(returned[2]) = NumMembers
           /\ chairman_call.status = "ok" =>
                 /\ returned[3].response = chairman_call.content
                 /\ returned[3].response # SynthesisError
C20_Witness ==
  /\ pc = "done"
  /\ AllSucceedWellFormed
  /\ chairman_call.status = "ok"
  /\ returned[3].response = <<Word>>
  /\ returned[4].aggregate_rankings[1].average_rank <
       returned[4].aggregate_rankings[NumMembers].average_rank


\* A string without the characters of a set at its two ends.
Trimmed(str, chars) ==
  LET keep == {i \in 1..Len(str) : str[i] \notin chars}
  IN IF keep = {} THEN <<>>
     ELSE SubSeq(str, CHOOSE i \in keep : \A j \in keep : i <= j,
                      CHOOSE i \in keep : \A j \in keep : j <= i)
CleanedReply == Trimmed(Trimmed(title_call.content, {" "}), {"\"", "'"})

\* C21: title generation returns a string of at most 50 characters: the fixed
\* fallback "New Conversation" when the reply is absent, and for a cleaned
\* reply longer than 50 characters its first 47 characters followed by "...".
C21_TitleAtMostFifty ==
  title_pc = "returned" =>
    /\ Len(title_result) <= 50
    /\ title_call.status = "none" => title_result = TitleFallback
    /\ (title_call.status = "ok" /\ Len(CleanedReply) > 50) =>
          title_result = SubSeq(CleanedReply, 1, 47) \o <<".", ".", ".">>
    /\ (title_call.status = "ok" /\ Len(CleanedReply) <= 50) =>
          title_result = CleanedReply
C21_Witness ==
  /\ title_pc = "returned"
  /\ title_call.status = "ok"
  /\ Len(CleanedReply) = 51
  /\ Len(title_call.content) > 51
  /\ Len(title_result) = 50
C21_FallbackWitness ==
  /\ title_pc = "returned"
  /\ title_call.status = "none"
  /\ title_result = TitleFallback


C23_FreeUserWithinLimit ==
  conv_tier = "free" =>
    /\ Cardinality(conv_rows) <= 2
    /\ \A r \in Requests :
          (req_pc[r] # "arrived" /\ req_pc[r] # "count" /\ req_seen[r] >= 2) =>
             (req_pc[r] = "402" /\ <<"request", r>> \notin conv_rows)

\* Requests that do not overlap keep the limit: a commit made while the
\* committed rows are still the ones the request counted never takes the
\* user past the limit.
OneAtATime_WithinLimit ==
  [][(conv_tier = "free" /\ \E r \in Requests :
         /\ req_pc[r] = "flushed" /\ req_pc'[r] = "200"
         /\ req_seen[r] = Cardinality(conv_rows))
       => Cardinality(conv_rows') <= 2]_vars


\* C24: once create_profile has made a user's profile it is locked: a later
\* update_profile is rejected and leaves the stored gender, age range and
\* mood as they were, and a second create_profile is answered 400.
C24_ProfileLockedOnceCreated ==
  prof_original.exists =>
    /\ prof_row.gender = prof_original.gender
    /\ prof_row.age_range = prof_original.age_range
    /\ prof_row.mood = prof_original.mood
    /\ prof_last.op = "update" => prof_last.status = 400
    /\ (prof_last.op = "create" /\ prof_handled >= 2) => prof_last.status = 400

\* The part about create_profile alone: the request that follows a created
\* profile is answered 400 and changes nothing.
SecondCreate_Rejected ==
  [][(prof_original.exists /\ prof_last'.op = "create" /\ prof_handled' # prof_handled)
       => (prof_last'.status = 400 /\ prof_row' = prof_row)]_vars


\* C25: every conversation endpoint (get, send message, stream message,
\* follow-up, star, rename, delete) answers 403 to a caller that is not the
\* owner of the conversation, and then neither the conversation nor its
\* messages change and no council call is made.
C25_OthersAreRefused ==
  [][(acc_handled' # acc_handled /\ acc_conv.exists /\ acc_last'.caller # acc_conv.user_id)
       => /\ acc_last'.status = 403
          /\ acc_conv' = acc_conv
          /\ acc_council' = acc_council]_vars
C25_Witness ==
  /\ acc_last.endpoint = "delete"
  /\ acc_last.status = 403
  /\ acc_conv.exists
  /\ acc_last.caller # acc_conv.user_id
  /\ acc_handled = 2
  /\ acc_council = 1


\* The label map of a Stage-1 list: the label of the i-th result to its model.
MapOf(results) ==
  [l \in {ResponseOfChr[i] : i \in 1..Len(results)} |->
     results[CHOOSE i \in 1..Len(results) : ResponseOfChr[i] = l].model]

\* C26: the label map is built once per run, when Stage 1 has completed and
\* no Stage-2 call has been issued yet, and no later step changes it: while
\* Stage-2 calls exist and in the returned metadata it is the map built from
\* the Stage-1 list.
C26_LabelMapBuiltOnce ==
  /\ [][label_to_model' # label_to_model =>
          /\ pc = "stage1" /\ pc' = "stage2"
          /\ \A m \in Members : Settled(stage1_calls[m])
          /\ ~Issued(stage2_calls)]_vars
  /\ [](Issued(stage2_calls) => label_to_model = MapOf(stage1_results))
  /\ [](pc = "done" => returned[4].label_to_model = MapOf(returned[1]))
C26_Witness ==
  /\ pc = "done"
  /\ Len(returned[1]) = 1
  /\ Len(returned[2]) = 2
  /\ returned[4].label_to_model = MapOf(returned[1])
  /\ returned[4].label_to_model[ResponseOfChr[1]] = COUNCIL_MODELS[2]


\* C27: within one run no agent call is retried: every council member gets at
\* most one Stage-1 query and at most one Stage-2 query and the chairman at
\* most one query, whatever the outcome of each call.
C27_NoRetry ==
  /\ \A m \in Members : queries_sent.stage1[m] <= 1 /\ queries_sent.stage2[m] <= 1
  /\ queries_sent.chairman <= 1
C27_Witness ==
  /\ pc = "done"
  /\ \E m \in Members : stage1_calls[m].status = "none"
  /\ \E m \in Members : stage2_calls[m].status = "none"
  /\ chairman_call.status = "none"
  /\ \A m \in Members : queries_sent.stage1[m] = 1 /\ queries_sent.stage2[m] = 1
  /\ queries_sent.chairman = 1


\* C28: the aggregator uses only the positions inside each reviewer's own
\* parsed list: an agent's rankings_count is the number of occurrences of its
\* label over all parsed lists, a reviewer whose list omits the label (or is
\* empty) adds nothing for it, and an agent with no occurrence has no entry.
C28_CountIsOccurrences ==
  agg_pc = "returned" =>
     \A agent \in Members :
       LET occ == Occurrences(agg_stage2, agg_label_to_model, agent)
           entries == {k \in 1..Len(agg_result) : agg_result[k].model = agent}
       IN IF occ = {} THEN entries = {}
          ELSE /\ Cardinality(entries) = 1
               /\ \A k \in entries : agg_result[k].rankings_count = Cardinality(occ)
\* One reviewer's list is empty and the other's omits the second agent: the
\* first agent counts one ranking and the second has no entry.
C28_Witness ==
  /\ agg_pc = "returned"
  /\ Cardinality(DOMAIN agg_label_to_model) = 2
  /\ Len(agg_stage2) = 2
  /\ agg_stage2[1].parsed_ranking = <<>>
  /\ agg_stage2[2].parsed_ranking = <<ResponseOfChr[1]>>
  /\ Len(agg_result) = 1
  /\ agg_result[1].model = agg_label_to_model[ResponseOfChr[1]]
  /\ agg_result[1].rankings_count = 1


\* C29: for every aggregate entry the rankings_count is at most the number
\* of Stage-2 results: each reviewer adds at most one position to any one
\* agent, also when its parsed list repeats a label.
C29_CountWithinReviewers ==
  agg_pc = "returned" =>
     \A k \in 1..Len(agg_result) : agg_result[k].rankings_count <= Len(agg_stage2)
\* A parsed list that holds no label twice.
NoRepeat(parsed) ==
  \A i, j \in 1..Len(parsed) : parsed[i] = parsed[j] => i = j
\* When no reviewer's parsed list repeats a label the count stays within the
\* number of Stage-2 results.
NoRepeats_CountWithinReviewers ==
  (/\ agg_pc = "returned"
   /\ \A r \in 1..Len(agg_stage2) : NoRepeat(agg_stage2[r].parsed_ranking)) =>
     \A k \in 1..Len(agg_result) : agg_result[k].rankings_count <= Len(agg_stage2)


\* The positions of the mentions of label after the first marker of text.
FirstMarker(text) ==
  CHOOSE i \in MarkerPositions(text) : \A j \in MarkerPositions(text) : i <= j
MentionsAfterFirstMarker(text, label) ==
  {i \in FirstMarker(text) + 1..Len(text) : text[i] = label}

\* C30: when the marker is present, no mention located before the first
\* marker appears in the parsed list: every label is in the parsed list at
\* most as often as it is mentioned after the first marker, and with no
\* mention after the marker the parsed list is empty, whatever precedes it.
C30_NothingBeforeMarker ==
  (parse_pc = "returned" /\ MarkerPositions(ranking_text) # {}) =>
     /\ \A label \in Mentions :
          Cardinality({k \in 1..Len(parsed_ranking) : parsed_ranking[k] = label})
            <= Cardinality(MentionsAfterFirstMarker(ranking_text, label))
     /\ (\A label \in Mentions : MentionsAfterFirstMarker(ranking_text, label) = {})
          => parsed_ranking = <<>>
\* "Response A, Response B. FINAL RANKING: none" parses to the empty list.
C30_Witness ==
  /\ parse_pc = "returned"
  /\ ranking_text = <<ResponseOfChr[1], ResponseOfChr[2], Marker, Word>>
  /\ parsed_ranking = <<>>

====
